---- MODULE Spec2Model ----
(***************************************************************************)
(* Status-update endpoints (bookings, facilities) and the client-side      *)
(* StatusActions controls (booking revision 1, booking revision 2,         *)
(* facility) of the admin application.                                     *)
(*                                                                         *)
(* Specifications over one set of variables:                               *)
(*   SpecEndpoint  the POST handlers of the two update-status routes,      *)
(*                 serving requests of any shape, racing the service       *)
(*                 operation against the 25 s timer;                       *)
(*   Spec          one StatusActions control instance, its fetch, its      *)
(*                 timers, router.refresh and local storage;               *)
(*   FairSpec      Spec with the event loop's fairness, for liveness.      *)
(***************************************************************************)
EXTENDS Integers, Sequences, FiniteSets, TLC

\* ------------------------------------------------------------------ bounds
MaxRequests == 2      \* requests served one after the other by an endpoint
MaxClicks == 2        \* click events delivered to one page
MaxServerChanges == 2 \* changes of the entity's status in the store
MaxReloads == 1       \* full page reloads
MaxNow == 2           \* readings of the clock
MaxMwRequests == 2    \* requests passed through the middleware
MaxRvRequests == 2    \* requests served by the revalidation trigger

\* --------------------------------------------------------------- constants
Routes == {"bookings", "facilities"}
Controls == {"booking1", "booking2", "facility"}

BookingStatuses == {"pending", "approved", "rejected", "cancelled", "completed"}
FacilityStatuses == {"pending", "active", "rejected"}

VARIABLES
    \* ---- endpoint (request-scoped state of one POST invocation)
    req,          \* the request being served
    epc,          \* position of the handler: idle, received, racing, done
    op,           \* the service operation's promise
    opResult,     \* the value the operation resolved with
    timer25,      \* the 25 s timer: unset, armed, fired
    resp,         \* the response sent for the request
    opCalls,      \* invocations of the service operation for this request
    responses,    \* responses sent for this request
    winner,       \* what settled the awaited race first
    store,        \* status of the entity in the backing store
    webhooks,     \* webhook attempts made for this request
    served,       \* requests received so far
    \* ---- control (one StatusActions instance on one page)
    ctl,          \* which control is mounted
    serverStatus, \* authoritative status of the entity
    initialStatus,\* the status prop last delivered to the control
    currentStatus,
    isLoading,
    isRetrying,
    showSpinner,
    isPending,    \* useTransition's flag (booking revision 2)
    stored,       \* localStorage record booking_status_<id>
    pc,           \* position of the click handler: idle, fetching
    hTarget,      \* newStatus of the running handler
    hInit,        \* initialStatus captured by the running handler's closure
    timers,       \* pending setTimeout callbacks, by kind
    awaitingCb,   \* timer callbacks suspended at await onStatusChange()
    refreshing,   \* router.refresh() calls whose data has not arrived
    transition,   \* updates held by the pending transition
    outcome,      \* branch the last finished attempt took
    gotOk,        \* that attempt ended after a response with res.ok
    delivered,    \* an authoritative refresh arrived after the last attempt
    outstanding,  \* update requests of this instance not yet settled
    sent,         \* update requests sent by the page since it loaded
    refreshCalls, \* router.refresh() calls made for the last attempt
    cbCalls,      \* onStatusChange() calls made for the last attempt
    lastAlert,    \* the alert shown by the last attempt
    clicks,       \* click events delivered
    lastClick,    \* what the last click event did, and what became of
                  \* its request when a reload cut it off
    changes,      \* store changes made so far
    reloads,      \* reloads made so far
    \* ---- cache-defeat middleware
    mwReq,        \* the request the middleware was called with
    mwOut,        \* what the middleware returned for it
    now,          \* Date.now()
    mwCount,      \* requests the middleware has handled
    resubmitted,  \* mwReq is the URL the middleware produced, sent again
    \* ---- revalidation trigger
    rvEnv,        \* process.env.REVALIDATION_SECRET
    rvReq,        \* query parameters of the request being served
    rvResp,       \* the response of the GET handler
    rvCalls,      \* revalidatePath / revalidateTag call made for rvReq, and
                  \* whether it threw
    rvCount       \* requests the trigger has served

epVars == <<req, epc, op, opResult, timer25, resp, opCalls, responses, winner,
            store, webhooks, served>>
ctlVars == <<ctl, serverStatus, initialStatus, currentStatus, isLoading,
             isRetrying, showSpinner, isPending, stored, pc, hTarget, hInit,
             timers, awaitingCb, refreshing, transition, outcome, gotOk, delivered,
             outstanding, sent, refreshCalls, cbCalls, lastAlert, clicks,
             lastClick, changes, reloads>>
mwVars == <<mwReq, mwOut, now, mwCount, resubmitted>>
rvVars == <<rvEnv, rvReq, rvResp, rvCalls, rvCount>>
vars == <<epVars, ctlVars, mwVars, rvVars>>


\* ====================================================================
\*  Status-update endpoints: POST /api/bookings/update-status and
\*  POST /api/facilities/update-status
\* ====================================================================

Targets(route) == IF route = "bookings" THEN {"approved", "rejected"}
                  ELSE {"active", "rejected"}

\* A request as the handler sees it: whether request.json() and the
\* destructuring of its value succeed, whether the id field is truthy, and
\* the status field ("none" when absent or falsy).
Requests ==
    [route : Routes, body : {"malformed"}, id : {FALSE}, status : {"none"}]
    \cup
    { r \in [route : Routes, body : {"object"}, id : BOOLEAN,
             status : {"none", "approved", "rejected", "active"}] :
        r.status \in Targets(r.route) \cup {"none"} }

NoReq == [route |-> "bookings", body |-> "none", id |-> FALSE, status |-> "none"]

\* Values the service operation resolves with (BookingUpdateResult,
\* FacilityUpdateResult).
NoResult == [success |-> FALSE, webhookSent |-> "none"]

NoResp == [status |-> 0, success |-> "none", partial |-> "none",
           webhookSent |-> "none", error |-> "none", noStore |-> FALSE]

\* The facility route builds no-store headers and passes them to every
\* response; the booking route passes none.
NoStoreHeaders(route) == route = "facilities"

\* if (!bookingId || !status)
MissingFieldsOneOnly(r) == ~r.id /\ r.status = "none"
MissingFields(r) == ~r.id \/ r.status = "none"

BadRequestResponse(route) ==
    [status |-> 400, success |-> "none", partial |-> "none",
     webhookSent |-> "none", error |-> "Missing required fields",
     noStore |-> NoStoreHeaders(route)]

ErrorResponse(route) ==
    [status |-> 500, success |-> "none", partial |-> "none",
     webhookSent |-> "none", error |-> "Internal server error",
     noStore |-> NoStoreHeaders(route)]

\* The catch around the awaited race: it takes every rejection of the race,
\* the timer's and the operation's alike.
OnRejectedAsError(route) == ErrorResponse(route)
OnRejectedAsGatewayTimeout(route) ==
    [status |-> 504, success |-> "none", partial |-> "none",
     webhookSent |-> "none", error |-> "Database operation timed out",
     noStore |-> NoStoreHeaders(route)]
OnRejected(route) ==
    [status |-> 200, success |-> "true", partial |-> "true",
     webhookSent |-> "false", error |-> "none",
     noStore |-> NoStoreHeaders(route)]

\* The code after the awaited race when the race is fulfilled.
OnFulfilledIgnoringSuccess(route, result) ==
    [status |-> 200, success |-> "true", partial |-> "none",
     webhookSent |-> result.webhookSent, error |-> "none",
     noStore |-> NoStoreHeaders(route)]
OnFulfilled(route, result) ==
    IF ~result.success
    THEN [status |-> 404, success |-> "none", partial |-> "none",
          webhookSent |-> "none", error |-> "result.message",
          noStore |-> NoStoreHeaders(route)]
    ELSE [status |-> 200, success |-> "true", partial |-> "none",
          webhookSent |-> result.webhookSent, error |-> "none",
          noStore |-> NoStoreHeaders(route)]

OpActive == op \in {"running", "mutated"}

\* Calls of the service made on the way to the response, once the handler
\* has left the race (or never entered it) by way w: none on any way.
CallsAfterRaceRetrying(w) == IF w \in {"timer", "exception"} THEN 1 ELSE 0
CallsAfterRace(w) == 0

\* The handler is suspended at await Promise.race([...]); a promise that
\* settles at any other time resumes nothing.
AwaitingRaceOrDone == epc \in {"racing", "done"}
AwaitingRace == epc = "racing"

\* NextResponse.json(...) returned from the handler, left by way w.
Respond(r, w) ==
    /\ resp' = r
    /\ responses' = responses + 1
    /\ winner' = w
    /\ epc' = "done"
    /\ opCalls' = opCalls + CallsAfterRace(w)

EndpointInit ==
    /\ req = NoReq
    /\ epc = "idle"
    /\ op = "notcalled"
    /\ opResult = NoResult
    /\ timer25 = "unset"
    /\ resp = NoResp
    /\ opCalls = 0
    /\ responses = 0
    /\ winner = "none"
    /\ store = "pending"
    /\ webhooks = 0
    /\ served = 0

\* A request arrives; the previous invocation has run to its end.
Receive(r) ==
    /\ epc \in {"idle", "done"}
    /\ ~OpActive
    /\ timer25 # "armed"
    /\ served < MaxRequests
    /\ served' = served + 1
    /\ req' = r
    /\ epc' = "received"
    /\ op' = "notcalled"
    /\ opResult' = NoResult
    /\ timer25' = "unset"
    /\ resp' = NoResp
    /\ opCalls' = 0
    /\ responses' = 0
    /\ winner' = "none"
    /\ webhooks' = 0
    /\ UNCHANGED <<store, ctlVars, mwVars, rvVars>>

\* POST up to the awaited race: parse, validate, arm the timer, call the
\* service.
POST ==
    /\ epc = "received"
    /\ IF req.body = "malformed"
       THEN /\ Respond(ErrorResponse(req.route), "error")
            /\ UNCHANGED <<timer25, op>>
       ELSE IF MissingFields(req)
       THEN /\ Respond(BadRequestResponse(req.route), "validation")
            /\ UNCHANGED <<timer25, op>>
       ELSE /\ timer25' = "armed"
            /\ op' = "running"
            /\ opCalls' = opCalls + 1
            /\ epc' = "racing"
            /\ UNCHANGED <<resp, responses, winner>>
    /\ UNCHANGED <<req, opResult, store, webhooks, served, ctlVars, mwVars, rvVars>>

\* The operation's promise is fulfilled with `result`; when the handler is
\* still awaiting the race, it continues with that value.
Fulfil(result) ==
    /\ op' = "resolved"
    /\ opResult' = result
    /\ IF AwaitingRace
       THEN Respond(OnFulfilled(req.route, result), "operation")
       ELSE UNCHANGED <<resp, responses, winner, epc, opCalls>>

\* The service writes the new status to the store.
OpMutate ==
    /\ op = "running"
    /\ op' = "mutated"
    /\ store' = req.status
    /\ UNCHANGED <<req, epc, opResult, timer25, resp, opCalls, responses,
                   winner, webhooks, served, ctlVars, mwVars, rvVars>>

\* The service finds no entity to update and reports failure.
OpNotFound ==
    /\ op = "running"
    /\ Fulfil([success |-> FALSE, webhookSent |-> "none"])
    /\ UNCHANGED <<req, timer25, store, webhooks, served, ctlVars, mwVars, rvVars>>

\* The service ends after the write: the webhook was attempted and sent,
\* attempted and not sent, or not attempted.
OpFinish(w) ==
    /\ op = "mutated"
    /\ webhooks' = IF w = "none" THEN webhooks ELSE webhooks + 1
    /\ Fulfil([success |-> TRUE, webhookSent |-> w])
    /\ UNCHANGED <<req, timer25, store, served, ctlVars, mwVars, rvVars>>

\* The operation's promise is rejected (an exception inside the service).
OpReject ==
    /\ OpActive
    /\ op' = "rejected"
    /\ IF AwaitingRace
       THEN Respond(OnRejected(req.route), "exception")
       ELSE UNCHANGED <<resp, responses, winner, epc, opCalls>>
    /\ UNCHANGED <<req, opResult, timer25, store, webhooks, served,
                   ctlVars, mwVars, rvVars>>

\* setTimeout(() => reject(...), 25000)
TimerFire ==
    /\ timer25 = "armed"
    /\ timer25' = "fired"
    /\ IF AwaitingRace
       THEN Respond(OnRejected(req.route), "timer")
       ELSE UNCHANGED <<resp, responses, winner, epc, opCalls>>
    /\ UNCHANGED <<req, op, opResult, store, webhooks, served,
                   ctlVars, mwVars, rvVars>>

EndpointNext ==
    \/ \E r \in Requests : Receive(r)
    \/ POST
    \/ OpMutate
    \/ OpNotFound
    \/ \E w \in {"true", "false", "none"} : OpFinish(w)
    \/ OpReject
    \/ TimerFire


\* ====================================================================
\*  StatusActions controls: booking revision 1 ("booking1"), booking
\*  revision 2 ("booking2", with localStorage and useTransition) and the
\*  facility control ("facility")
\* ====================================================================

Statuses(c) == IF c = "facility" THEN FacilityStatuses ELSE BookingStatuses

\* newStatus of the two buttons.
ButtonTargets(c) == IF c = "facility" THEN {"active", "rejected"}
                    ELSE {"approved", "rejected"}

HttpStatuses == {200, 400, 404, 500, 504}

\* res.ok
Ok(status) == status >= 200 /\ status <= 299

\* What fetch (or the code after it) can throw: the name of the error and
\* which of the substrings tested by the catch block its message has.
AbortError == [name |-> "AbortError", msg |-> "other"]
JsonError == [name |-> "SyntaxError", msg |-> "other"]
FetchErrors == { [name |-> "TypeError", msg |-> "Failed to fetch"],
                 [name |-> "TypeError", msg |-> "other"],
                 [name |-> "Error", msg |-> "timeout"] }

Branches == {"success", "gateway", "rollback", "abort", "network", "unexpected"}

\* The if / else-if chain of the catch block.
CatchBranch(e, onLine) ==
    IF e.name = "AbortError" \/ e.msg = "timeout" THEN "abort"
    ELSE IF e.msg = "Failed to fetch" \/ ~onLine THEN "network"
    ELSE "unexpected"

\* The branch taken once fetch has resolved with a response: res.ok with a
\* readable body, res.ok with res.json() throwing, 504, any other status.
ResponseBranch(status, bodyOk, onLine) ==
    IF Ok(status)
    THEN IF bodyOk THEN "success" ELSE CatchBranch(JsonError, onLine)
    ELSE IF status = 504 THEN "gateway" ELSE "rollback"

\* useEffect of revision 2: the stored record replaces the status when it
\* is present and differs from the status prop; `cur` is kept otherwise.
StoredStatusEffect(c, init, st, cur) ==
    IF c = "booking2" /\ st # "none" /\ st # init THEN st ELSE cur

\* if (currentStatus !== 'pending') return <span> ... : the buttons exist
\* only for a pending status, and are disabled while loading (or while the
\* transition is pending, in revision 2).
ClickableAlways(c, cur, loading, pending) == TRUE
ClickableWhenNotBusy(c, cur, loading, pending) ==
    ~loading /\ ~(c = "booking2" /\ pending)
Clickable(c, cur, loading, pending) ==
    /\ cur = "pending"
    /\ ~loading
    /\ ~(c = "booking2" /\ pending)

\* if (isLoading) return;   (the booking controls only)
ReturnsEarly(c, loading) == c \in {"booking1", "booking2"} /\ loading

\* localStorage.setItem at click time (revision 2 only).
StoreAtClickNever(c, st, t) == st
StoreAtClick(c, st, t) == IF c = "booking2" THEN t ELSE st

\* Whether the branch leaves currentStatus at the optimistic target.
KeepsOptimisticNever(c, b) == b = "success"
KeepsOptimistic(c, b) ==
    IF c = "booking1" THEN b \in {"success", "abort", "network"}
    ELSE b \in {"success", "gateway", "abort", "network"}

\* localStorage.removeItem
RemovesRecordNever(c, b) == FALSE
RemovesRecordOnAmbiguity(c, b) == c = "booking2" /\ b # "success"
RemovesRecord(c, b) == c = "booking2" /\ b \in {"rollback", "unexpected"}

\* setShowSpinner(false) executed by the handler itself (outside timers
\* and transitions).
ClearsSpinner(c, b) ==
    IF c = "booking1" THEN b # "success"
    ELSE b \in {"rollback", "abort", "network", "unexpected"}

\* router.refresh() (through a timer, a transition, or after
\* onStatusChange) is arranged by the branch.
SchedulesRefresh(c, b) == b \in {"success", "gateway", "abort", "network"}

\* The timer callback or transition of a success branch also clears the
\* spinner.
DeferredSpinnerOff(c, b) == b = "success"

\* finally { setIsLoading(false) }: the value of isLoading when the handler
\* ends, whatever the branch.
LoadingAfterWithoutFinally(c, b) == b = "unexpected"
LoadingAfter(c, b) == FALSE

\* Requests the handler sends again by itself at the end of branch b
\* (a call of the handler with retry = true): no branch has one.
ResendsOnAmbiguity(c, b) == IF b \in {"gateway", "abort", "network"} THEN 1 ELSE 0
Resends(c, b) == 0

AlertOf(b) == IF b = "success" THEN "none" ELSE b

ControlInit ==
    /\ ctl \in Controls
    /\ serverStatus = "pending"
    /\ initialStatus = "pending"
    /\ currentStatus = "pending"
    /\ isLoading = FALSE
    /\ isRetrying = FALSE
    /\ showSpinner = FALSE
    /\ isPending = FALSE
    /\ stored = "none"
    /\ pc = "idle"
    /\ hTarget = "none"
    /\ hInit = "none"
    /\ timers = {}
    /\ awaitingCb = {}
    /\ refreshing = 0
    /\ transition = "none"
    /\ outcome = "none"
    /\ gotOk = FALSE
    /\ delivered = FALSE
    /\ outstanding = 0
    /\ sent = 0
    /\ refreshCalls = 0
    /\ cbCalls = 0
    /\ lastAlert = "none"
    /\ clicks = 0
    /\ lastClick = "none"
    /\ changes = 0
    /\ reloads = 0

\* The part of the control's state a click handler can write.
uiVars == <<currentStatus, isLoading, isRetrying, showSpinner, isPending,
            stored, pc, hTarget, hInit, timers, awaitingCb, refreshing,
            transition, outstanding, sent>>

\* A click event at the Approve / Reject position with newStatus = t. React
\* commits the state written by a click handler before the next event is
\* dispatched, so the event meets the output of the latest state. The
\* handler runs to its first await: the fetch is sent.
Click(t) ==
    /\ clicks < MaxClicks
    /\ clicks' = clicks + 1
    /\ IF Clickable(ctl, currentStatus, isLoading, isPending)
          /\ ~ReturnsEarly(ctl, isLoading)
       THEN /\ isLoading' = TRUE
            /\ currentStatus' = t
            /\ showSpinner' = TRUE
            /\ stored' = StoreAtClick(ctl, stored, t)
            /\ pc' = "fetching"
            /\ hTarget' = t
            /\ hInit' = initialStatus
            /\ outstanding' = outstanding + 1
            /\ sent' = sent + 1
            /\ outcome' = "none"
            /\ gotOk' = FALSE
            /\ delivered' = FALSE
            /\ refreshCalls' = 0
            /\ cbCalls' = 0
            /\ lastAlert' = "none"
            /\ lastClick' = "sent"
            /\ UNCHANGED <<isRetrying, isPending, timers, awaitingCb,
                           refreshing, transition>>
       ELSE /\ lastClick' = "ignored"
            /\ UNCHANGED <<uiVars, outcome, gotOk, delivered, refreshCalls, cbCalls,
                           lastAlert>>
    /\ UNCHANGED <<ctl, serverStatus, initialStatus, changes, reloads, epVars, mwVars, rvVars>>

\* The rest of the handler, from the settled fetch to the end of finally,
\* for the branch b.
Finish(b, ok) ==
    /\ pc = "fetching"
    /\ pc' = "idle"
    /\ outstanding' = outstanding - 1 + Resends(ctl, b)
    /\ sent' = sent + Resends(ctl, b)
    /\ outcome' = b
    /\ gotOk' = ok
    /\ lastAlert' = AlertOf(b)
    /\ currentStatus' = IF KeepsOptimistic(ctl, b) THEN currentStatus ELSE hInit
    /\ stored' = IF RemovesRecord(ctl, b) THEN "none" ELSE stored
    /\ showSpinner' = IF ClearsSpinner(ctl, b) THEN FALSE ELSE showSpinner
    /\ IF ~SchedulesRefresh(ctl, b)
       THEN UNCHANGED <<timers, refreshing, refreshCalls, transition, isPending>>
       ELSE IF ctl = "booking2"
       THEN \* startTransition(() => { ...; router.refresh() })
            /\ transition' = IF DeferredSpinnerOff(ctl, b) \/ transition = "spinnerOff"
                             THEN "spinnerOff" ELSE "refresh"
            /\ isPending' = TRUE
            /\ refreshing' = refreshing + 1
            /\ refreshCalls' = refreshCalls + 1
            /\ UNCHANGED timers
       ELSE \* setTimeout(() => { ... }, delay)
            /\ timers' = timers \cup
                  {[gen |-> sent, spinnerOff |-> DeferredSpinnerOff(ctl, b)]}
            /\ UNCHANGED <<refreshing, refreshCalls, transition, isPending>>
    /\ isLoading' = LoadingAfter(ctl, b)
    /\ isRetrying' = FALSE
    /\ UNCHANGED <<ctl, serverStatus, initialStatus, hTarget, hInit, awaitingCb,
                   delivered, cbCalls, clicks, lastClick, changes,
                   reloads, epVars, mwVars, rvVars>>

\* fetch resolves with a response.
FetchResponds(status, bodyOk, onLine) ==
    Finish(ResponseBranch(status, bodyOk, onLine), Ok(status))

\* The 30 s timer calls controller.abort(): fetch rejects with AbortError.
AbortTimerFires == Finish(CatchBranch(AbortError, TRUE), FALSE)

\* fetch rejects for another reason.
FetchRejects(e, onLine) == Finish(CatchBranch(e, onLine), FALSE)


\* A setTimeout callback runs: setShowSpinner(false) in the success branch,
\* then router.refresh(), which the facility control precedes by
\* await onStatusChange().
TimerFires(t) ==
    /\ t \in timers
    /\ timers' = timers \ {t}
    /\ showSpinner' = IF t.spinnerOff THEN FALSE ELSE showSpinner
    /\ IF ctl = "facility"
       THEN /\ awaitingCb' = awaitingCb \cup {t.gen}
            /\ cbCalls' = IF t.gen = sent THEN cbCalls + 1 ELSE cbCalls
            /\ UNCHANGED <<refreshing, refreshCalls>>
       ELSE /\ refreshing' = refreshing + 1
            /\ refreshCalls' = IF t.gen = sent THEN refreshCalls + 1
                               ELSE refreshCalls
            /\ UNCHANGED <<awaitingCb, cbCalls>>
    /\ UNCHANGED <<ctl, serverStatus, initialStatus, currentStatus, isLoading,
                   isRetrying, isPending, stored, pc, hTarget, hInit,
                   transition, outcome, gotOk, delivered, outstanding, sent,
                   lastAlert, clicks, lastClick, changes, reloads, epVars, mwVars, rvVars>>

\* onStatusChange() resolves: the parent has fetched the facilities again
\* and passes the fetched status down; the callback goes on to
\* router.refresh().
CallbackResolves(g) ==
    /\ g \in awaitingCb
    /\ awaitingCb' = awaitingCb \ {g}
    /\ initialStatus' = serverStatus
    /\ refreshing' = refreshing + 1
    /\ refreshCalls' = IF g = sent THEN refreshCalls + 1 ELSE refreshCalls
    /\ UNCHANGED <<ctl, serverStatus, currentStatus, isLoading, isRetrying,
                   showSpinner, isPending, stored, pc, hTarget, hInit, timers,
                   transition, outcome, gotOk, delivered, outstanding, sent, cbCalls,
                   lastAlert, clicks, lastClick, changes, reloads, epVars, mwVars, rvVars>>

\* The data asked for by router.refresh() arrives: the server components
\* render again and the control receives the authoritative status as its
\* status prop. The control stays mounted, so its state is kept; the effect
\* of revision 2 runs again when the prop has changed. A pending transition
\* commits with the last arrival.
RefreshDeliver ==
    /\ refreshing > 0
    /\ refreshing' = refreshing - 1
    /\ initialStatus' = serverStatus
    /\ currentStatus' =
          IF serverStatus # initialStatus
          THEN StoredStatusEffect(ctl, serverStatus, stored, currentStatus)
          ELSE currentStatus
    /\ IF transition # "none" /\ refreshing = 1
       THEN /\ transition' = "none"
            /\ isPending' = FALSE
            /\ showSpinner' = IF transition = "spinnerOff" THEN FALSE
                              ELSE showSpinner
       ELSE UNCHANGED <<transition, isPending, showSpinner>>
    /\ delivered' = (delivered \/ (pc = "idle" /\ outcome # "none"))
    /\ UNCHANGED <<ctl, serverStatus, isLoading, isRetrying, stored, pc,
                   hTarget, hInit, timers, awaitingCb, outcome, gotOk, outstanding,
                   sent, refreshCalls, cbCalls, lastAlert, clicks, lastClick,
                   changes, reloads, epVars, mwVars, rvVars>>

\* The entity's status changes in the store: by the update the control
\* asked for, or by anything else (another administrator, a cancellation).
EntityChange(s) ==
    /\ changes < MaxServerChanges
    /\ s \in Statuses(ctl) \ {serverStatus}
    /\ serverStatus' = s
    /\ changes' = changes + 1
    /\ UNCHANGED <<ctl, initialStatus, uiVars, outcome, gotOk, delivered,
                   refreshCalls, cbCalls, lastAlert, clicks, lastClick,
                   reloads, epVars, mwVars, rvVars>>

\* The page is loaded again: the running handler, the timers and the
\* refreshes of the old page are gone, the control mounts with the status
\* fetched from the server and its effect runs; localStorage survives.
Reload ==
    /\ reloads < MaxReloads
    /\ reloads' = reloads + 1
    /\ initialStatus' = serverStatus
    /\ currentStatus' = StoredStatusEffect(ctl, serverStatus, stored, serverStatus)
    /\ isLoading' = FALSE
    /\ isRetrying' = FALSE
    /\ showSpinner' = FALSE
    /\ isPending' = FALSE
    /\ pc' = "idle"
    /\ hTarget' = "none"
    /\ hInit' = "none"
    /\ timers' = {}
    /\ awaitingCb' = {}
    /\ refreshing' = 0
    /\ transition' = "none"
    /\ outcome' = "none"
    /\ gotOk' = FALSE
    /\ delivered' = FALSE
    /\ outstanding' = 0
    /\ sent' = 0
    /\ refreshCalls' = 0
    /\ cbCalls' = 0
    /\ lastAlert' = "none"
    /\ lastClick' = IF pc = "fetching" THEN "interrupted" ELSE lastClick
    /\ UNCHANGED <<ctl, serverStatus, stored, clicks, changes, epVars, mwVars, rvVars>>

\* The endpoint answers a request whose page was reloaded meanwhile with an
\* error (400, 404 or 500): the update did not take place, and the handler
\* that would have read the answer is gone with the old page.
LostRequestFails ==
    /\ lastClick = "interrupted"
    /\ lastClick' = "failed"
    /\ UNCHANGED <<ctl, serverStatus, initialStatus, uiVars, outcome, gotOk, delivered,
                   refreshCalls, cbCalls, lastAlert, clicks, changes, reloads,
                   epVars, mwVars, rvVars>>

TimerStep == \E t \in timers : TimerFires(t)
CallbackStep == \E g \in awaitingCb : CallbackResolves(g)

ControlNext ==
    \/ \E t \in ButtonTargets(ctl) : Click(t)
    \/ \E st \in HttpStatuses, bodyOk \in BOOLEAN, onLine \in BOOLEAN :
          FetchResponds(st, bodyOk, onLine)
    \/ AbortTimerFires
    \/ \E e \in FetchErrors, onLine \in BOOLEAN : FetchRejects(e, onLine)
    \/ TimerStep
    \/ CallbackStep
    \/ RefreshDeliver
    \/ \E s \in BookingStatuses \cup FacilityStatuses : EntityChange(s)
    \/ Reload
    \/ LostRequestFails

\* ====================================================================
\*  Cache-defeat middleware (src/middleware.ts)
\* ====================================================================

Methods == {"GET", "POST", "HEAD"}
Paths == {"/", "/bookings"}

\* A URL: its path and its _t query parameter (t is 0 when it has none).
Urls == { u \in [path : Paths, hasT : BOOLEAN, t : 0..MaxNow] :
            ~u.hasT => u.t = 0 }
MwRequests == [method : Methods, url : Urls]

NoUrl == [path |-> "/", hasT |-> FALSE, t |-> 0]
NoMwReq == [method |-> "none", url |-> NoUrl]
NoMwOut == [kind |-> "none", url |-> NoUrl, noStore |-> FALSE]

\* if (request.method === 'GET' && !url.searchParams.has('_t'))
ShouldRewriteAnyGet(method, url) == method = "GET"
ShouldRewrite(method, url) == method = "GET" /\ ~url.hasT

\* url.searchParams.set('_t', Date.now().toString())
SetMarker(url, time) == [url EXCEPT !.hasT = TRUE, !.t = time]

\* The Cache-Control, Pragma and Expires headers are set on the response
\* made by NextResponse.next(); NextResponse.rewrite(url) makes another
\* response, on which nothing is set.
NoStoreOn(kind) == kind = "next"

\* What the middleware returns for request r at time `time`.
MiddlewareResult(r, time) ==
    IF ShouldRewrite(r.method, r.url)
    THEN [kind |-> "rewrite", url |-> SetMarker(r.url, time),
          noStore |-> NoStoreOn("rewrite")]
    ELSE [kind |-> "next", url |-> r.url, noStore |-> NoStoreOn("next")]

MwInit ==
    /\ mwReq = NoMwReq
    /\ mwOut = NoMwOut
    /\ now = 1
    /\ mwCount = 0
    /\ resubmitted = FALSE

\* The middleware handles a request (one that its matcher lets through).
middleware(r) ==
    /\ mwCount < MaxMwRequests
    /\ mwCount' = mwCount + 1
    /\ mwReq' = r
    /\ mwOut' = MiddlewareResult(r, now)
    /\ resubmitted' = FALSE
    /\ UNCHANGED <<now, epVars, ctlVars, rvVars>>

\* The URL the middleware produced is requested again with the same method.
Resubmit ==
    /\ mwOut.kind # "none"
    /\ mwCount < MaxMwRequests
    /\ mwCount' = mwCount + 1
    /\ mwReq' = [method |-> mwReq.method, url |-> mwOut.url]
    /\ mwOut' = MiddlewareResult([method |-> mwReq.method, url |-> mwOut.url], now)
    /\ resubmitted' = TRUE
    /\ UNCHANGED <<now, epVars, ctlVars, rvVars>>

\* Time passes.
Tick ==
    /\ now < MaxNow
    /\ now' = now + 1
    /\ UNCHANGED <<mwReq, mwOut, mwCount, resubmitted, epVars, ctlVars, rvVars>>

MwNext ==
    \/ \E r \in MwRequests : middleware(r)
    \/ Resubmit
    \/ Tick

\* ====================================================================
\*  Revalidation trigger (GET /api/revalidate-cache)
\* ====================================================================

\* process.env.REVALIDATION_SECRET: not set, set to the empty string, set.
EnvSecrets == {"unset", "", "s1"}

\* Query parameters as searchParams.get returns them ("none" for null).
RvRequests == [path : {"none", "", "/", "/bookings"},
               secret : {"none", "s1", "s2"},
               tag : {"none", "", "bookings"}]

NoRvReq == [path |-> "none", secret |-> "none", tag |-> "none"]
NoRvResp == [status |-> 0, revalidated |-> FALSE, timestamp |-> FALSE,
             noStore |-> FALSE]
NoRvCalls == [path |-> "none", tag |-> "none", threw |-> FALSE]

\* JavaScript truthiness of a string, null or undefined.
Truthy(x) == x \notin {"none", "unset", ""}

\* if (process.env.REVALIDATION_SECRET && secret !== process.env....)
SecretRejectedEvenUnset(env, secret) == secret # env
SecretRejected(env, secret) == Truthy(env) /\ secret # env

\* searchParams.get('path') || '/'
PathOfNoDefault(r) == r.path
PathOf(r) == IF Truthy(r.path) THEN r.path ELSE "/"

\* if (tag) revalidateTag(tag) else revalidatePath(path)
InvalidationOf(r) ==
    IF Truthy(r.tag) THEN [path |-> "none", tag |-> r.tag, threw |-> FALSE]
    ELSE [path |-> PathOf(r), tag |-> "none", threw |-> FALSE]

RvInit ==
    /\ rvEnv \in EnvSecrets
    /\ rvReq = NoRvReq
    /\ rvResp = NoRvResp
    /\ rvCalls = NoRvCalls
    /\ rvCount = 0

\* The GET handler, for the query r; `throws` is whether the invalidation
\* function throws.
GET(r, throws) ==
    /\ rvCount < MaxRvRequests
    /\ rvCount' = rvCount + 1
    /\ rvReq' = r
    /\ IF SecretRejected(rvEnv, r.secret)
       THEN /\ rvResp' = [status |-> 401, revalidated |-> FALSE,
                          timestamp |-> FALSE, noStore |-> FALSE]
            /\ rvCalls' = NoRvCalls
       ELSE /\ rvCalls' = [InvalidationOf(r) EXCEPT !.threw = throws]
            /\ rvResp' = IF throws
                         THEN [status |-> 500, revalidated |-> FALSE,
                               timestamp |-> TRUE, noStore |-> FALSE]
                         ELSE [status |-> 200, revalidated |-> TRUE,
                               timestamp |-> TRUE, noStore |-> TRUE]
    /\ UNCHANGED <<rvEnv, epVars, ctlVars, mwVars>>

RvNext == \E r \in RvRequests, throws \in BOOLEAN : GET(r, throws)

\* The middleware and the trigger before any request, with no secret set.
GlueInit == MwInit /\ RvInit /\ rvEnv = "unset"

\* ------------------------------------------------------- specifications
Init == EndpointInit /\ ControlInit /\ GlueInit
Next == ControlNext
Spec == Init /\ [][Next]_vars

\* The event loop runs due timer callbacks, the awaited onStatusChange()
\* settles, and the data of a refresh arrives.
FairSpec ==
    /\ Spec
    /\ WF_vars(TimerStep)
    /\ WF_vars(CallbackStep)
    /\ WF_vars(RefreshDeliver)

\* Besides, a pending fetch settles: at the latest the 30 s timer aborts it.
FairSpecHandler == FairSpec /\ WF_vars(AbortTimerFires)

InitEndpoint == EndpointInit /\ ControlInit /\ ctl = "booking2" /\ GlueInit
SpecEndpoint == InitEndpoint /\ [][EndpointNext]_vars

\* The endpoint answers: the handler runs once invoked, and the 25 s timer
\* fires once armed. Nothing is assumed of the service operation.
FairSpecEndpoint == SpecEndpoint /\ WF_vars(POST) /\ WF_vars(TimerFire)

InitMiddleware ==
    /\ EndpointInit /\ ControlInit /\ ctl = "booking2"
    /\ MwInit /\ RvInit /\ rvEnv = "unset"
SpecMiddleware == InitMiddleware /\ [][MwNext]_vars

InitRevalidate == EndpointInit /\ ControlInit /\ ctl = "booking2" /\ MwInit /\ RvInit
SpecRevalidate == InitRevalidate /\ [][RvNext]_vars


\* ====================================================================
\*  Claims about the endpoints (checked under SpecEndpoint)
\* ====================================================================

\* C1: for both routes, a request whose body lacks the entity id or lacks
\* status (absent or falsy) is answered with 400, and the service operation
\* (store write, webhook) is never invoked for it.
C1_ValidationPrecedesMutation ==
    (req.body = "object" /\ (~req.id \/ req.status = "none")) =>
        /\ opCalls = 0
        /\ op = "notcalled"
        /\ webhooks = 0
        /\ epc = "done" => resp.status = 400

\* A facility request that carries the id but no status has been answered.
C1_Witness ==
    /\ epc = "done"
    /\ req.route = "facilities"
    /\ req.body = "object"
    /\ req.id
    /\ req.status = "none"
    /\ resp.status = 400
    /\ store = "active"

\* C2: when the 25 s timer settles the race before the operation does, the
\* response is 200 with success=true, partial=true, webhookSent=false, and
\* it stays so whatever the operation does afterwards.
C2_TimeoutIsPartialSuccess ==
    winner = "timer" =>
        /\ resp.status = 200
        /\ resp.success = "true"
        /\ resp.partial = "true"
        /\ resp.webhookSent = "false"
        /\ responses = 1

\* The timer won and the operation later reported a failure.
C2_Witness ==
    /\ winner = "timer"
    /\ op = "resolved"
    /\ ~opResult.success
    /\ resp.partial = "true"

\* C3: when the operation settles the race first with a result whose
\* success is false, the response is 404 and its body states neither
\* success=true nor partial=true (the body carries the error message only).
C3_FailureResultIs404 ==
    (winner = "operation" /\ ~opResult.success) =>
        /\ resp.status = 404
        /\ resp.success # "true"
        /\ resp.partial # "true"

\* The operation reported a failure while the timer was still armed.
C3_Witness ==
    /\ winner = "operation"
    /\ ~opResult.success
    /\ timer25 = "armed"
    /\ resp.status = 404

\* C4: an exception during request handling (the body failing to parse, the
\* operation rejecting before the timer fires) is answered with 500 and
\* never reported as success=true or partial=true.
C4_ExceptionsAre500 ==
    (epc = "done" /\ winner \in {"error", "exception"}) =>
        /\ resp.status = 500
        /\ resp.success # "true"
        /\ resp.partial # "true"


\* ====================================================================
\*  Claims about the controls (checked under Spec and FairSpec)
\* ====================================================================

\* The refresh of the last attempt has been arranged: its timer is pending,
\* its callback awaits onStatusChange(), or router.refresh() was called.
RefreshArranged ==
    \/ \E t \in timers : t.gen = sent
    \/ sent \in awaitingCb
    \/ refreshCalls > 0

C6_OptimisticWhileInFlight ==
    (ctl = "booking2" /\ pc = "fetching") =>
        /\ currentStatus = hTarget
        /\ hTarget \in ButtonTargets(ctl)
        /\ showSpinner
        /\ isLoading
        /\ stored = hTarget

\* Revision 2 awaits the response to an Approve click while the server
\* still holds pending.
C6_Witness ==
    /\ ctl = "booking2"
    /\ pc = "fetching"
    /\ hTarget = "approved"
    /\ stored = "approved"
    /\ serverStatus = "pending"

\* Nothing of the control is left to run.
Quiescent ==
    /\ pc = "idle"
    /\ timers = {}
    /\ awaitingCb = {}
    /\ refreshing = 0

\* C7: after an abort or network error left the optimistic target on
\* display, once the authoritative refresh has delivered the server's
\* status and nothing is left to run, currentStatus is that status.
C7_ReconciliationWins ==
    (Quiescent /\ outcome \in {"abort", "network"} /\ delivered) =>
        currentStatus = initialStatus

\* C8: once an attempt has finished and an authoritative refresh has been
\* delivered, the localStorage record is absent or equal to the delivered
\* status.
C8_RecordSuperseded ==
    (ctl = "booking2" /\ pc = "idle" /\ outcome # "none" /\ delivered) =>
        stored \in {"none", initialStatus}

\* The handler ended in the abort or the network-error branch of its catch.
AmbiguousEnd == pc = "idle" /\ outcome \in {"abort", "network"}

\* C9: on an abort or a network error the control does not roll back:
\* currentStatus stays the target, the localStorage record (revision 2) is
\* kept, a refresh is arranged, and router.refresh() (after
\* onStatusChange() for facilities) eventually runs, unless the page is
\* loaded again before (a reloaded page has sent nothing yet).
C9_AmbiguousKeepsOptimistic ==
    /\ [](AmbiguousEnd =>
            /\ currentStatus = hTarget
            /\ (ctl = "booking2" => stored = hTarget)
            /\ RefreshArranged)
    /\ AmbiguousEnd ~>
          \/ refreshCalls > 0 /\ (ctl = "facility" => cbCalls > 0)
          \/ reloads > 0 /\ sent = 0

\* The facility control kept the target after an abort, and its timer has
\* called onStatusChange() and router.refresh().
C9_Witness ==
    /\ ctl = "facility"
    /\ AmbiguousEnd
    /\ outcome = "abort"
    /\ currentStatus = hTarget
    /\ cbCalls > 0
    /\ refreshCalls > 0

\* C10 as stated: after a 504 every control keeps the target, keeps the
\* record and arranges a refresh.
C10_GatewayKeepsOptimisticEverywhere ==
    (pc = "idle" /\ outcome = "gateway") =>
        /\ currentStatus = hTarget
        /\ (ctl = "booking2" => stored = hTarget)
        /\ RefreshArranged

\* C10, amended: after a 504, booking revision 2 and the facility control
\* keep the target (and revision 2 its record) and arrange a refresh;
\* booking revision 1 arranges the refresh too, but has reset currentStatus
\* to the status prop it was clicked with.
C10_GatewayAmended ==
    (pc = "idle" /\ outcome = "gateway") =>
        /\ RefreshArranged
        /\ ctl = "booking1" => currentStatus = hInit
        /\ ctl # "booking1" => currentStatus = hTarget
        /\ ctl = "booking2" => stored = hTarget

\* Revision 2 received a 504: target and record kept, transition pending.
C10_Witness ==
    /\ ctl = "booking2"
    /\ pc = "idle"
    /\ outcome = "gateway"
    /\ currentStatus = "rejected"
    /\ stored = "rejected"
    /\ isPending

\* The handler ended in the branch of a non-OK response other than 504.
RolledBack == pc = "idle" /\ outcome = "rollback"

\* C11: after a non-OK response other than 504 the control has rolled
\* back when the handler ends, with no refresh of that attempt: the spinner
\* is off, the error is alerted, the localStorage record (revision 2) is
\* removed, and currentStatus is the status prop the handler was created
\* with, which in revision 2 and in the facility control is the pending
\* status the control showed before the click.
C11_ErrorResponseRollsBack ==
    RolledBack =>
        /\ currentStatus = hInit
        /\ ctl \in {"booking2", "facility"} => currentStatus = "pending"
        /\ ctl = "booking2" => stored = "none"
        /\ ~showSpinner
        /\ lastAlert = "rollback"
        /\ ~RefreshArranged

\* Revision 2 rolled a Reject click back.
C11_Witness ==
    /\ ctl = "booking2"
    /\ RolledBack
    /\ hTarget = "rejected"
    /\ currentStatus = "pending"
    /\ stored = "none"

\* C12: every accepted attempt ends with isLoading and isRetrying false,
\* whatever branch it took: the flags are never set once the handler has
\* finished, and a set isLoading is eventually cleared.
C12_GuaranteedCleanup ==
    /\ [](pc = "idle" => ~isLoading /\ ~isRetrying)
    /\ [](pc = "fetching" => isLoading)
    /\ isLoading ~> ~isLoading

\* The handler ended in the branch of an unexpected exception, on a page
\* that was not reloaded, with the flags cleared.
C12_Witness ==
    /\ pc = "idle"
    /\ outcome = "unexpected"
    /\ reloads = 0
    /\ ~isLoading
    /\ ~isRetrying

\* C13: after an explicit success response, once the refresh of the attempt
\* has run and been delivered, the control shows the target, the refresh
\* was triggered exactly once, the busy indicator is off and the
\* localStorage record does not contradict the delivered status.
C13_SuccessReconciled ==
    (Quiescent /\ outcome = "success" /\ delivered) =>
        /\ currentStatus = hTarget
        /\ refreshCalls = 1
        /\ ~showSpinner
        /\ ~isPending
        /\ stored \in {"none", initialStatus}

\* ---------------------------------------------------------------- C14
\* C14: the middleware attaches the no-store headers (Cache-Control,
\* Pragma, Expires) to the response of every request it handles, the GET
\* requests it rewrites included.
C14_HeadersOnEveryResponse == mwOut.kind # "none" => mwOut.noStore

\* ---------------------------------------------------------------- C15
\* C15: the middleware rewrites a request, adding _t, if and only if its
\* method is GET and its URL has no _t; every other request is passed
\* through with its URL unchanged; the middleware applied to the URL it
\* produced rewrites nothing and leaves the _t value as it was.
C15_RewriteIffUnmarkedGet ==
    mwOut.kind # "none" =>
        /\ mwOut.kind = "rewrite" <=> (mwReq.method = "GET" /\ ~mwReq.url.hasT)
        /\ mwOut.kind = "rewrite" =>
               mwOut.url.hasT /\ mwOut.url.path = mwReq.url.path
        /\ mwOut.kind = "next" => mwOut.url = mwReq.url
        /\ resubmitted => mwOut.kind = "next" /\ mwOut.url = mwReq.url

C15_Witness ==
    /\ resubmitted /\ mwReq.method = "GET" /\ mwOut.kind = "next"
    /\ mwOut.url.hasT /\ mwOut.url.t = 1 /\ now = 2

\* ---------------------------------------------------------------- C16
\* C16: with a secret configured on the server, a request whose secret
\* parameter is absent or different is answered 401 with revalidated =
\* false and neither revalidatePath nor revalidateTag is called; a request
\* with the matching secret is not refused; with no secret configured no
\* request is refused.
C16_SecretGate ==
    rvCount > 0 =>
        /\ (rvEnv = "s1" /\ rvReq.secret # "s1") =>
               /\ rvResp.status = 401
               /\ ~rvResp.revalidated
               /\ rvCalls = NoRvCalls
        /\ (rvEnv = "s1" /\ rvReq.secret = "s1") =>
               rvResp.status # 401 /\ rvCalls # NoRvCalls
        /\ rvEnv \in {"unset", ""} =>
               rvResp.status # 401 /\ rvCalls # NoRvCalls

C16_Witness ==
    /\ rvEnv = "s1" /\ rvReq.secret = "none" /\ rvReq.tag = "bookings"
    /\ rvResp.status = 401 /\ rvCalls = NoRvCalls

\* ---------------------------------------------------------------- C17
\* C17: every response of both status-update endpoints (success, partial
\* success, 400, 404, 500) is built with the headers Cache-Control:
\* no-store, no-cache, must-revalidate, proxy-revalidate, Pragma: no-cache
\* and Expires: 0.
C17_NoStoreOnEveryResponse == responses >= 1 => resp.noStore

\* ---------------------------------------------------------------- C18
\* C18: per request the endpoint calls the update operation at most once,
\* exactly once when the request is valid and the handler has reached the
\* race, and never when it is not valid; it does not call it again after a
\* timeout, a failure result or an exception; at most one webhook is
\* attempted.
ValidRequest == req.body = "object" /\ req.id /\ req.status # "none"

C18_OperationCalledOnce ==
    /\ opCalls <= 1
    /\ webhooks <= 1
    /\ (epc \in {"racing", "done"} /\ ValidRequest) => opCalls = 1
    /\ (epc = "done" /\ ~ValidRequest) => (opCalls = 0 /\ op = "notcalled")
    /\ op # "notcalled" => opCalls = 1

C18_Witness ==
    /\ epc = "done" /\ winner = "timer" /\ op = "rejected"
    /\ opCalls = 1 /\ responses = 1

\* ---------------------------------------------------------------- C19
\* C19: every request gets exactly one response, with status 200, 400, 404
\* or 500, also when the update operation never settles: a request being
\* handled leads to the handler being done with one response sent.
C19_AlwaysOneResponse ==
    /\ [](responses <= 1)
    /\ [](epc = "done" => responses = 1 /\ resp.status \in {200, 400, 404, 500})
    /\ [](epc # "done" => responses = 0)
    /\ (epc \in {"received", "racing"}) ~> (epc = "done" /\ responses = 1)

C19_Witness ==
    /\ epc = "done" /\ winner = "timer" /\ op = "running"
    /\ responses = 1 /\ resp.status = 200

\* ---------------------------------------------------------------- C20
\* C20: the race cancels nothing. Once the response is sent, nothing the
\* operation or the timer does later changes it or sends another one; and
\* after the timer has won, the running operation can still write to the
\* store and go on to its webhook.
C20_StepKeepsResponse ==
    (epc = "done" /\ served' = served) =>
        /\ resp' = resp
        /\ responses' = responses
        /\ epc' = "done"
        /\ winner' = winner

C20_NonCancellingRace ==
    /\ [][C20_StepKeepsResponse]_vars
    /\ []((winner = "timer" /\ op = "running") => ENABLED OpMutate)
    /\ []((winner = "timer" /\ op = "mutated") => ENABLED OpFinish("true"))
    /\ []((winner = "operation" /\ timer25 = "armed") => ENABLED TimerFire)

C20_Witness ==
    /\ winner = "timer" /\ op = "resolved" /\ opResult.success
    /\ store = req.status /\ webhooks = 1 /\ responses = 1
    /\ resp.partial = "true"

\* ---------------------------------------------------------------- C21
\* C21: no automatic retry. A request is sent only by an accepted click, one
\* per click; the end of the handler after a 504, an abort or a network
\* error sends nothing and arranges a refresh instead; isRetrying is never
\* true.
C21_StepSendsOnlyOnClick ==
    /\ sent' # sent =>
          \/ reloads' = reloads + 1 /\ sent' = 0
          \/ /\ clicks' = clicks + 1
             /\ lastClick' = "sent"
             /\ sent' = sent + 1
             /\ pc = "idle" /\ pc' = "fetching"
    /\ (pc = "fetching" /\ pc' = "idle" /\ reloads' = reloads) =>
          /\ sent' = sent
          /\ outstanding' = 0
          /\ outcome' \in {"gateway", "abort", "network"} =>
                \/ timers' # timers
                \/ refreshing' = refreshing + 1

C21_NoAutomaticRetry ==
    /\ [][C21_StepSendsOnlyOnClick]_vars
    /\ [](~isRetrying)
    /\ [](sent <= clicks)

C21_Witness ==
    /\ pc = "idle" /\ outcome = "network" /\ sent = 1 /\ clicks = 2
    /\ lastClick = "ignored" /\ ~isRetrying /\ RefreshArranged

\* ---------------------------------------------------------------- C22
\* C22: a request is sent only by a click on a control whose currentStatus
\* is pending, and its target is one of the two decision statuses of the
\* control; while currentStatus is not pending (by the authoritative status
\* or by an optimistic one) a click does nothing and no request is sent.
C22_StepSendsOnlyFromPending ==
    /\ sent' = sent + 1 =>
          /\ currentStatus = "pending"
          /\ hTarget' \in ButtonTargets(ctl)
          /\ hTarget' \in (IF ctl = "facility" THEN {"active", "rejected"}
                           ELSE {"approved", "rejected"})
          /\ currentStatus' = hTarget'
    /\ (currentStatus # "pending" /\ reloads' = reloads) =>
          /\ sent' = sent
          /\ clicks' = clicks + 1 =>
                (lastClick' = "ignored" /\ currentStatus' = currentStatus
                 /\ pc' = pc /\ stored' = stored)

C22_OnlyPendingIsActionable == [][C22_StepSendsOnlyFromPending]_vars

C22_Witness ==
    /\ lastClick = "ignored" /\ clicks = 2 /\ sent = 1
    /\ pc = "idle" /\ outcome = "success" /\ currentStatus = hTarget

\* ---------------------------------------------------------------- C23
\* C23: when the page is loaded again while the request is unresolved and
\* the server's status is still pending, the fresh booking control
\* (revision 2) displays the stored target; and once that attempt has
\* failed, the record is gone, so that a mount displays the server's status
\* and not the target.
MountDisplays == StoredStatusEffect(ctl, serverStatus, stored, serverStatus)

C23_StepReloadKeepsTarget ==
    (ctl = "booking2" /\ pc = "fetching" /\ serverStatus = "pending"
       /\ reloads' = reloads + 1) =>
        /\ currentStatus' = hTarget
        /\ currentStatus' # "pending"
        /\ stored' = hTarget

C23_ReloadKeepsTarget == [][C23_StepReloadKeepsTarget]_vars

C23_ReloadSurvival ==
    (ctl = "booking2" /\ lastClick = "failed") =>
        /\ stored = "none"
        /\ MountDisplays = serverStatus

\* ---------------------------------------------------------------- C24
\* C24: an authorized revalidation request invalidates exactly one target:
\* the tag when the tag parameter is not empty (revalidatePath is then not
\* called), otherwise the path parameter, "/" when it is absent or empty;
\* the response then has revalidated = true and a timestamp; when the
\* invalidation throws, the response is 500 with revalidated = false.
Authorized == rvCount > 0 /\ rvResp.status # 401

C24_OneTargetInvalidated ==
    Authorized =>
        /\ (rvCalls.path = "none") # (rvCalls.tag = "none")
        /\ rvReq.tag \notin {"none", ""} =>
               rvCalls.tag = rvReq.tag /\ rvCalls.path = "none"
        /\ rvReq.tag \in {"none", ""} =>
               /\ rvCalls.tag = "none"
               /\ rvCalls.path = IF rvReq.path \in {"none", ""} THEN "/"
                                 ELSE rvReq.path
        /\ ~rvCalls.threw =>
               rvResp.status = 200 /\ rvResp.revalidated /\ rvResp.timestamp
        /\ rvCalls.threw => rvResp.status = 500 /\ ~rvResp.revalidated

C24_Witness ==
    /\ rvResp.status = 200 /\ rvResp.revalidated
    /\ rvReq.tag = "" /\ rvReq.path = "none" /\ rvCalls.path = "/"
    /\ rvCount = 2

\* ---------------------------------------------------------------- C25
\* C25: a response whose status is OK never leads to a rollback: the
\* handler that got it ends in neither resetting branch, the local record
\* (revision 2) is still the target, and currentStatus is still the target
\* as long as no refresh has been delivered; also when reading the body of
\* the response fails.
C25_OkNeverRollsBack ==
    (pc = "idle" /\ gotOk) =>
        /\ outcome \notin {"rollback", "unexpected"}
        /\ ctl = "booking2" => stored = hTarget
        /\ (Quiescent /\ ~delivered) => currentStatus = hTarget

\* ---------------------------------------------------------------- C26
\* C26: the busy indicator is transient: after every outcome of an attempt,
\* once the handler has ended and every timer, callback and refresh it
\* arranged has run, showSpinner is false (and no transition is pending).
C26_SpinnerTransient ==
    (Quiescent /\ outcome # "none") => (~showSpinner /\ ~isPending)

====
